---- MODULE Spec2Model ----
(***************************************************************************)
(* A model of the original logic of the RAG service: the session history  *)
(* store (fastapi/src/chat/history.py, driven by the chat chain of        *)
(* fastapi_interface/src/chat/chat.py), the document loader               *)
(* (fastapi/src/rag/file_loader.py) and the two answer extractors         *)
(* (fastapi/src/rag/rag.py, fastapi_interface/src/chat/output_parser.py). *)
(* Text is a sequence of one-character strings.                           *)
(***************************************************************************)
EXTENDS Integers, Sequences, FiniteSets, TLC

VARIABLES
    max_history_length, \* the factory's configured maximum
    fs,                 \* the storage: record path -> list of stored turns
    appended,           \* history: session id -> every turn ever appended to it
    pc,                 \* position of the request in flight: idle, loaded, rejected
    cur,                \* session id of the request in flight
    returned,           \* the messages of the history object get_chat_history returned
    fsBefore,           \* history: the storage when get_chat_history was entered
    \* the document loader
    dir,                \* the names of the files in the directory
    file_type,          \* the declared type, "pdf" or "html"
    workers,            \* the workers the caller asks for
    num_cpu,            \* multiprocessing.cpu_count()
    lpc,                \* position of load_dir: start, collecting, returned, raised, assert_failed
    files,              \* the list glob returned, in the order the pool is given it
    taskq,              \* files no worker has taken yet
    parsing,            \* files a worker is parsing
    outq,               \* results of finished workers, not yet collected
    parsed,             \* history: the result of every finished parse
    doc_loaded,         \* the list the loader extends
    pool,               \* the worker pool: none, alive, terminated
    error,              \* the file whose failure was raised to the caller
    result,             \* what load_dir returned
    \* the answer extractors
    raw,                \* the raw model output
    epc,                \* raw, parsed
    answer,             \* what parse returned
    \* the text normalisation of load_pdf / load_html
    pages,              \* the texts the parser gave for one file, as code points
    loaded,             \* the contents of the documents load_pdf / load_html returned
    chunks,             \* the contents of the chunks the splitter made of them
    npc,                \* parsed, loaded, split
    \* chat requests running side by side
    proc,               \* request slot -> its position, session id and locals
    overlapped          \* history: the session ids two requests have shared in time

histVars == <<max_history_length, fs, appended, pc, cur, returned, fsBefore>>

loadVars == <<dir, file_type, workers, num_cpu, lpc, files, taskq, parsing, outq,
              parsed, doc_loaded, pool, error, result>>

extVars == <<raw, epc, answer>>

normVars == <<pages, loaded, chunks, npc>>

concVars == <<proc, overlapped>>

vars == <<histVars, loadVars, extVars, normVars, concVars>>

----------------------------------------------------------------------------
(* Bounds of the model *)

MaxHistoryLength == 2

MaxRequests == 2

MaxCpu == 2

MaxWorkers == 2

MaxPages == 2

MaxSegmentsA == 4

MaxSegmentsB == 4

MaxTextLen == 3

MaxNormDocs == 1

ChunkSize == 2

MaxConcRequests == 2

----------------------------------------------------------------------------
(* Text helpers *)

Lower == {"a","b","c","d","e","f","g","h","i","j","k","l","m",
          "n","o","p","q","r","s","t","u","v","w","x","y","z"}

Upper == {"A","B","C","D","E","F","G","H","I","J","K","L","M",
          "N","O","P","Q","R","S","T","U","V","W","X","Y","Z"}

Digits == {"0","1","2","3","4","5","6","7","8","9"}

----------------------------------------------------------------------------
(* Session history store *)

\* The character class [a-zA-Z0-9-_] of the validation pattern.
IdClass == Lower \cup Upper \cup Digits \cup {"-", "_"}

\* Python's "$": the position k (the index of the next character) is the end
\* of the string, or stands just before a newline that ends the string.
ReDollar(value, k) ==
    \/ k = Len(value) + 1
    \/ k = Len(value) /\ value[k] = "\n"

\* re.match(r"^[a-zA-Z0-9-_]+$", value): one or more class characters from
\* the start, then "$".
is_valid_identifier(value) ==
    \E k \in 2..(Len(value) + 1) :
        /\ \A i \in 1..(k - 1) : value[i] \in IdClass
        /\ ReDollar(value, k)

\* The base directory the factory is configured with.
base_dir == <<"h", "i", "s", "t">>

JsonSuffix == <<".", "j", "s", "o", "n">>

\* os.path.join(a, b) for POSIX paths.
PathJoin(a, b) ==
    IF b # <<>> /\ b[1] = "/" THEN b
    ELSE IF a = <<>> \/ a[Len(a)] = "/" THEN a \o b
    ELSE a \o <<"/">> \o b

file_path(session_id) == PathJoin(base_dir, session_id \o JsonSuffix)

\* FileChatMessageHistory(path): the record is created empty when absent.
FileOpen(store, path) ==
    IF path \in DOMAIN store THEN store
    ELSE [p \in DOMAIN store \cup {path} |-> IF p = path THEN <<>> ELSE store[p]]

\* chat_hist.messages: the stored list.
FileMessages(store, path) == store[path]

\* A clear that empties every record of the directory.
FileClearAll(store, path) == [p \in DOMAIN store |-> <<>>]

\* chat_hist.clear(): the record is rewritten empty.
FileClear(store, path) == [store EXCEPT ![path] = <<>>]

\* chat_hist.add_message(m): read the record, append, write it back.
FileAddMessage(store, path, m) ==
    [store EXCEPT ![path] = Append(FileMessages(store, path), m)]

RECURSIVE FileAddAll(_, _, _)
FileAddAll(store, path, ms) ==
    IF ms = <<>> THEN store
    ELSE FileAddAll(FileAddMessage(store, path, Head(ms)), path, Tail(ms))

\* messages[:n], the oldest n instead of the most recent n.
KeepFirst(messages, n) ==
    SubSeq(messages, 1, IF n > Len(messages) THEN Len(messages) ELSE n)

\* Python's messages[-n:] for n >= 0: -0 is 0, so n = 0 takes the whole list.
KeepLast(messages, n) ==
    LET len   == Len(messages)
        start == IF n = 0 THEN 0
                 ELSE IF len - n < 0 THEN 0 ELSE len - n
    IN  SubSeq(messages, start + 1, len)

\* The truncation of get_chat_history: clear, then re-add the kept messages.
Truncate(store, path, maxlen) ==
    LET messages == FileMessages(store, path)
    IN  IF Len(messages) > maxlen
        THEN FileAddAll(FileClear(store, path), path, KeepLast(messages, maxlen))
        ELSE store

\* Session ids a caller may send (cookie or request configuration).
SessionIds ==
    { <<"a","b","c","-","1","2","3","_","1">>,
      <<"Z","9">>,
      <<"a","b","c","\n">>,
      <<>>,
      <<"a","b","c"," ","1","2","3">>,
      <<"a","b","c","@","1","2","3">>,
      <<"a","/","b">>,
      <<".",".","/","x">>,
      <<"/","x">>,
      <<"a",".","b">>,
      <<"\n">>,
      <<"a","\n","\n">>,
      <<"a","\n","b">> }

HistInit ==
    /\ max_history_length \in 0..MaxHistoryLength
    /\ fs = <<>>
    /\ appended = [s \in SessionIds |-> <<>>]
    /\ pc = "idle"
    /\ cur = <<>>
    /\ returned = <<>>
    /\ fsBefore = <<>>

\* get_chat_history(session_id), the whole call.
GetChatHistory(session_id) ==
    /\ pc = "idle"
    /\ cur' = session_id
    /\ fsBefore' = fs
    /\ IF ~ is_valid_identifier(session_id)
       THEN /\ pc' = "rejected"
            /\ returned' = <<>>
            /\ fs' = fs
       ELSE LET path   == file_path(session_id)
                opened == FileOpen(fs, path)
                after  == Truncate(opened, path, max_history_length)
            IN  /\ fs' = after
                /\ returned' = FileMessages(after, path)
                /\ pc' = "loaded"
    /\ UNCHANGED <<max_history_length, appended>>
    /\ UNCHANGED <<loadVars, extVars, normVars, concVars>>

\* The turn a request appends: its role and its number within the session.
Turn(role, session_id) == <<role, Len(appended[session_id]) \div 2 + 1>>

\* The chat chain has run: RunnableWithMessageHistory adds the human turn and
\* the assistant turn to the history object it was given.
ChainAppend ==
    /\ pc = "loaded"
    /\ Len(appended[cur]) < 2 * MaxRequests
    /\ LET path  == file_path(cur)
           turns == <<Turn("human", cur), Turn("ai", cur)>>
       IN  /\ fs' = FileAddAll(fs, path, turns)
           /\ appended' = [appended EXCEPT ![cur] = @ \o turns]
    /\ pc' = "idle"
    /\ UNCHANGED <<max_history_length, cur, returned, fsBefore>>
    /\ UNCHANGED <<loadVars, extVars, normVars, concVars>>

\* The request ends without appending: the client error has been reported, or
\* the chain failed after the history was loaded.
Finish ==
    /\ pc \in {"loaded", "rejected"}
    /\ pc' = "idle"
    /\ UNCHANGED <<max_history_length, fs, appended, cur, returned, fsBefore>>
    /\ UNCHANGED <<loadVars, extVars, normVars, concVars>>

HistNext ==
    \/ \E session_id \in SessionIds : GetChatHistory(session_id)
    \/ ChainAppend
    \/ Finish


----------------------------------------------------------------------------
(* Document loader *)

PdfExt == <<".", "p", "d", "f">>

HtmlExt == <<".", "h", "t", "m", "l">>

\* The file names a directory may hold.
Names ==
    { <<"a">> \o PdfExt,
      <<"b">> \o PdfExt,
      <<"f">> \o PdfExt,
      <<".", "d">> \o PdfExt,
      <<"c">> \o HtmlExt,
      <<"e">> \o HtmlExt }

dir_path == <<"d", "a", "t", "a">>

\* fnmatch of a directory entry against "*" followed by any extension: the
\* extension is not compared.
StarMatchAny(name, ext) == name # <<>> /\ name[1] # "."

\* fnmatch of a directory entry against "*" + ext, as glob applies it: "*"
\* does not match a leading dot.
StarMatch(name, ext) ==
    /\ Len(name) >= Len(ext)
    /\ name[1] # "."
    /\ SubSeq(name, Len(name) - Len(ext) + 1, Len(name)) = ext

\* glob.glob(f"{dir_path}/*<ext>"): the matching paths, as a set.
Glob(names, ext) ==
    {dir_path \o <<"/">> \o n : n \in {m \in names : StarMatch(m, ext)}}

\* The orders in which glob may list a set of paths.
Orderings(S) ==
    {q \in [1..Cardinality(S) -> S] : \A i, j \in 1..Cardinality(S) : q[i] = q[j] => i = j}

Ext(type) == IF type = "pdf" THEN PdfExt ELSE HtmlExt

\* The documents load_pdf / load_html returns for a file with n documents.
Docs(f, n) == [i \in 1..n |-> [source |-> f, page |-> i]]

\* What parsing one file may give: PyPDFLoader yields a document per page,
\* BSHTMLLoader one document; either may raise.
ParseResults(f, type) ==
    {[file |-> f, ok |-> TRUE, docs |-> Docs(f, n)] :
        n \in (IF type = "pdf" THEN 0..MaxPages ELSE {1})}
    \cup {[file |-> f, ok |-> FALSE, docs |-> <<>>]}

\* doc_loaded = result, the earlier documents dropped.
ExtendOverwrite(list, more) == more

\* doc_loaded.extend(result)
Extend(list, more) == list \o more

\* The splitter, one chunk per document here, metadata kept.
SplitDocuments(docs) == [i \in 1..Len(docs) |-> [doc |-> docs[i], chunk |-> 1]]

NoResult == "none"

LoadInit ==
    /\ dir \in SUBSET Names
    /\ file_type \in {"pdf", "html"}
    /\ workers \in 1..MaxWorkers
    /\ num_cpu \in 1..MaxCpu
    /\ lpc = "start"
    /\ files = <<>>
    /\ taskq = <<>>
    /\ parsing = {}
    /\ outq = <<>>
    /\ parsed = {}
    /\ doc_loaded = <<>>
    /\ pool = "none"
    /\ error = NoResult
    /\ result = NoResult

\* A pool with as many processes as the caller asks for, whatever the machine.
num_processes_requested == workers

\* min(self.num_processes, kwargs["workers"])
num_processes == IF num_cpu < workers THEN num_cpu ELSE workers

\* Loader.load_dir up to the creation of the pool in the loader's __call__:
\* glob, the assertion, load, and the pool with its tasks queued.
LoadDir ==
    /\ lpc = "start"
    /\ LET found == Glob(dir, Ext(file_type))
       IN  IF Cardinality(found) > 0
           THEN /\ \E q \in Orderings(found) : files' = q /\ taskq' = q
                /\ pool' = "alive"
                /\ lpc' = "collecting"
           ELSE /\ lpc' = "assert_failed"
                /\ UNCHANGED <<files, taskq, pool>>
    /\ UNCHANGED <<dir, file_type, workers, num_cpu, parsing, outq, parsed,
                   doc_loaded, error, result>>
    /\ UNCHANGED <<histVars, extVars, normVars, concVars>>

\* A free worker of the pool takes the next file.
WorkerTake ==
    /\ pool = "alive"
    /\ taskq # <<>>
    /\ Cardinality(parsing) < num_processes
    /\ parsing' = parsing \cup {Head(taskq)}
    /\ taskq' = Tail(taskq)
    /\ UNCHANGED <<dir, file_type, workers, num_cpu, lpc, files, outq, parsed,
                   doc_loaded, pool, error, result>>
    /\ UNCHANGED <<histVars, extVars, normVars, concVars>>

\* A worker finishes load_pdf / load_html on its file, with documents or with
\* an exception, and hands the result back.
WorkerFinish ==
    /\ pool = "alive"
    /\ \E f \in parsing : \E r \in ParseResults(f, file_type) :
        /\ parsing' = parsing \ {f}
        /\ outq' = Append(outq, r)
        /\ parsed' = parsed \cup {r}
    /\ UNCHANGED <<dir, file_type, workers, num_cpu, lpc, files, taskq,
                   doc_loaded, pool, error, result>>
    /\ UNCHANGED <<histVars, extVars, normVars, concVars>>

\* A failed result is taken for an empty one and the loop goes on.
HandleResultSwallow(r) ==
    /\ doc_loaded' = Extend(doc_loaded, r.docs)
    /\ UNCHANGED <<lpc, pool, parsing, taskq, error>>

\* One turn of "for result in pool.imap_unordered(...)": the iterator gives
\* the documents of the next finished file, or raises its exception, which
\* leaves the with-block (the pool is terminated) and reaches the caller.
HandleResult(r) ==
    IF r.ok
    THEN /\ doc_loaded' = Extend(doc_loaded, r.docs)
         /\ UNCHANGED <<lpc, pool, parsing, taskq, error>>
    ELSE /\ lpc' = "raised"
         /\ error' = r.file
         /\ pool' = "terminated"
         /\ parsing' = {}
         /\ taskq' = <<>>
         /\ UNCHANGED doc_loaded

Collect ==
    /\ lpc = "collecting"
    /\ outq # <<>>
    /\ HandleResult(Head(outq))
    /\ outq' = IF lpc' = "raised" THEN <<>> ELSE Tail(outq)
    /\ UNCHANGED <<dir, file_type, workers, num_cpu, files, parsed, result>>
    /\ UNCHANGED <<histVars, extVars, normVars, concVars>>

\* Every file's result has been collected: the pool is left, the loader
\* returns doc_loaded, and load returns the split documents.
Return ==
    /\ lpc = "collecting"
    /\ taskq = <<>> /\ parsing = {} /\ outq = <<>>
    /\ pool' = "terminated"
    /\ result' = SplitDocuments(doc_loaded)
    /\ lpc' = "returned"
    /\ UNCHANGED <<dir, file_type, workers, num_cpu, files, taskq, parsing, outq,
                   parsed, doc_loaded, error>>
    /\ UNCHANGED <<histVars, extVars, normVars, concVars>>

\* The call is over, with a list or an exception, and the Loader is called
\* again on the same directory: the call's locals are new, and nothing of the
\* call before is handed to it.
CallAgain ==
    /\ lpc \in {"returned", "raised", "assert_failed"}
    /\ lpc' = "start"
    /\ files' = <<>>
    /\ taskq' = <<>>
    /\ outq' = <<>>
    /\ parsed' = {}
    /\ doc_loaded' = <<>>
    /\ error' = NoResult
    /\ result' = NoResult
    /\ UNCHANGED <<dir, file_type, workers, num_cpu, parsing, pool>>
    /\ UNCHANGED <<histVars, extVars, normVars, concVars>>

LoadNext ==
    \/ LoadDir
    \/ WorkerTake
    \/ WorkerFinish
    \/ Collect
    \/ Return
    \/ CallAgain

----------------------------------------------------------------------------
(* Answer extractors *)

\* What Python's \s and str.strip() take for whitespace, within the alphabet.
Whitespace == {" ", "\t", "\n", "\r"}

\* The literal lit stands in text at position i.
MatchAt(text, i, lit) ==
    /\ i + Len(lit) - 1 <= Len(text)
    /\ SubSeq(text, i, i + Len(lit) - 1) = lit

\* re.search for a pattern that begins with the literal lit and then matches
\* anything: the leftmost position of lit, 0 when there is none.
Search(text, lit) ==
    LET hits == {i \in 1..Len(text) : MatchAt(text, i, lit)}
    IN  IF hits = {} THEN 0 ELSE CHOOSE i \in hits : \A j \in hits : i <= j

\* \s* from position j: the first position at or after j that holds no
\* whitespace.
RECURSIVE SkipSpace(_, _)
SkipSpace(text, j) ==
    IF j <= Len(text) /\ text[j] \in Whitespace THEN SkipSpace(text, j + 1) ELSE j

\* (.*) without re.DOTALL from position j: up to the end of the line.
RECURSIVE LineEnd(_, _)
LineEnd(text, j) ==
    IF j <= Len(text) /\ text[j] # "\n" THEN LineEnd(text, j + 1) ELSE j - 1

RECURSIVE LStrip(_)
LStrip(s) == IF s # <<>> /\ Head(s) \in Whitespace THEN LStrip(Tail(s)) ELSE s

RECURSIVE RStrip(_)
RStrip(s) ==
    IF s # <<>> /\ s[Len(s)] \in Whitespace THEN RStrip(SubSeq(s, 1, Len(s) - 1)) ELSE s

\* str.strip()
Strip(s) == RStrip(LStrip(s))

AnswerMarker == <<"A","n","s","w","e","r",":">>

\* The extraction with re.search(pattern, text) and no re.DOTALL, as in
\* utils.extract_answer: the capture ends at the first line break.
rag_extract_answer_line(text_response) ==
    LET i == Search(text_response, AnswerMarker)
    IN  IF i = 0 THEN text_response
        ELSE LET j == SkipSpace(text_response, i + Len(AnswerMarker))
             IN  Strip(SubSeq(text_response, j, LineEnd(text_response, j)))

\* Variant A, Str_OutputParser._extract_answer of rag.py:
\* re.search(r"Answer:\s*(.*)", text, re.DOTALL), group(1).strip(), or the
\* text itself.
rag_extract_answer(text_response) ==
    LET i == Search(text_response, AnswerMarker)
    IN  IF i = 0 THEN text_response
        ELSE LET j == SkipSpace(text_response, i + Len(AnswerMarker))
             IN  Strip(SubSeq(text_response, j, Len(text_response)))

\* The literal heads of the chat patterns r'\nAssistant:(.*)' and r'\nAI:(.*)'.
AssistantMarker == <<"\n","A","s","s","i","s","t","a","n","t",":">>

AIMarker == <<"\n","A","I",":">>

patterns == <<AssistantMarker, AIMarker>>

\* "Sorry, I am not sure how to help with that."
default ==
    <<"S","o","r","r","y",","," ","I"," ","a","m"," ","n","o","t"," ","s",
      "u","r","e"," ","h","o","w"," ","t","o"," ","h","e","l","p"," ",
      "w","i","t","h"," ","t","h","a","t",".">>

\* recursive_extract(text, pattern, default_answer)
RECURSIVE recursive_extract(_, _, _)
recursive_extract(text, pattern, default_answer) ==
    LET i == Search(text, pattern)
    IN  IF i = 0 THEN default_answer
        ELSE LET assistant_text == Strip(SubSeq(text, i + Len(pattern), Len(text)))
             IN  recursive_extract(assistant_text, pattern, assistant_text)

\* The loop with the fallback never replaced: a pattern that does not match
\* gives the fallback string, whatever an earlier pattern accepted.
RECURSIVE ExtractLoopFixedDefault(_, _, _, _)
ExtractLoopFixedDefault(ps, input_text, default_answer, output_text) ==
    IF ps = <<>> THEN output_text
    ELSE LET out == recursive_extract(input_text, Head(ps), default_answer)
         IN  IF out # default_answer
             THEN ExtractLoopFixedDefault(Tail(ps), out, default_answer, out)
             ELSE ExtractLoopFixedDefault(Tail(ps), input_text, default_answer, out)

\* The loop of _extract_answer over the patterns left, with its three locals.
RECURSIVE ExtractLoop(_, _, _, _)
ExtractLoop(ps, input_text, default_answer, output_text) ==
    IF ps = <<>> THEN output_text
    ELSE LET out == recursive_extract(input_text, Head(ps), default_answer)
         IN  IF out # default_answer
             THEN ExtractLoop(Tail(ps), out, out, out)
             ELSE ExtractLoop(Tail(ps), input_text, default_answer, out)

\* The extraction with the raw text for its fallback, as Variant A has it.
chat_extract_answer_passthrough(text_response) ==
    ExtractLoop(patterns, text_response, text_response, text_response)

\* Variant B, Str_OutputParser._extract_answer of output_parser.py with its
\* default patterns and default fallback.
chat_extract_answer(text_response) ==
    ExtractLoop(patterns, text_response, default, default)

\* The pieces raw model outputs are put together from.
SegmentsA ==
    { AnswerMarker, <<" ">>, <<"\n">>, <<"x">>, <<"A", "n", "s">>,
      <<"P", "a", "r", "i", "s">> }

SegmentsB ==
    { AssistantMarker, AIMarker, Tail(AssistantMarker), Tail(AIMarker),
      <<" ">>, <<"\n">>, <<"4", "2">>, default }

\* The texts of at most n pieces.
RECURSIVE Texts(_, _)
Texts(segments, n) ==
    IF n = 0 THEN {<<>>}
    ELSE LET shorter == Texts(segments, n - 1)
         IN  shorter \cup {t \o s : t \in shorter, s \in segments}

ExtInitA ==
    /\ raw \in Texts(SegmentsA, MaxSegmentsA)
    /\ epc = "raw"
    /\ answer = <<>>

ExtInitB ==
    /\ raw \in Texts(SegmentsB, MaxSegmentsB)
    /\ epc = "raw"
    /\ answer = <<>>

\* Str_OutputParser.parse of rag.py
ParseA ==
    /\ epc = "raw"
    /\ answer' = rag_extract_answer(raw)
    /\ epc' = "parsed"
    /\ UNCHANGED <<raw, histVars, loadVars, normVars, concVars>>

\* Str_OutputParser.parse of output_parser.py
ParseB ==
    /\ epc = "raw"
    /\ answer' = chat_extract_answer(raw)
    /\ epc' = "parsed"
    /\ UNCHANGED <<raw, histVars, loadVars, normVars, concVars>>

----------------------------------------------------------------------------
(* Text normalisation of the loaded documents.  Here a character is its   *)
(* code point, the only thing remove_non_utf8_characters reads of it.     *)

\* 'a', DEL (the last 7-bit character), U+0080 (the first beyond), 'e' acute.
CodePoints == {97, 127, 128, 233}

\* The filter with "<=" for "<".
remove_non_utf8_characters_le(text) == SelectSeq(text, LAMBDA char : char <= 128)

\* ''.join(char for char in text if ord(char) < 128)
remove_non_utf8_characters(text) == SelectSeq(text, LAMBDA char : char < 128)

\* load_pdf / load_html after the parser: every document's content replaced.
load_file(parsed_pages) ==
    [i \in 1..Len(parsed_pages) |-> remove_non_utf8_characters(parsed_pages[i])]

\* The splitter on a content without separators: pieces of chunk_size
\* characters, none for an empty content.
RECURSIVE SplitText(_, _)
SplitText(content, chunk_size) ==
    IF content = <<>> THEN <<>>
    ELSE IF Len(content) <= chunk_size THEN <<content>>
    ELSE <<SubSeq(content, 1, chunk_size)>>
         \o SplitText(SubSeq(content, chunk_size + 1, Len(content)), chunk_size)

\* split_documents: the pieces of every document, in order.
RECURSIVE SplitContents(_, _)
SplitContents(contents, chunk_size) ==
    IF contents = <<>> THEN <<>>
    ELSE SplitText(Head(contents), chunk_size) \o SplitContents(Tail(contents), chunk_size)

\* The texts of at most n code points.
RECURSIVE CodeTexts(_)
CodeTexts(n) ==
    IF n = 0 THEN {<<>>}
    ELSE LET shorter == CodeTexts(n - 1)
         IN  shorter \cup {Append(t, c) : t \in shorter, c \in CodePoints}

\* The lists of at most n texts.
RECURSIVE PageLists(_)
PageLists(n) ==
    IF n = 0 THEN {<<>>}
    ELSE LET shorter == PageLists(n - 1)
         IN  shorter \cup {Append(l, t) : l \in shorter, t \in CodeTexts(MaxTextLen)}

NormInit ==
    /\ pages \in PageLists(MaxNormDocs)
    /\ loaded = <<>>
    /\ chunks = <<>>
    /\ npc = "parsed"

NormIdle ==
    /\ pages = <<>>
    /\ loaded = <<>>
    /\ chunks = <<>>
    /\ npc = "idle"

\* load_pdf / load_html returns the documents of the file.
LoadFile ==
    /\ npc = "parsed"
    /\ loaded' = load_file(pages)
    /\ npc' = "loaded"
    /\ UNCHANGED <<pages, chunks, histVars, loadVars, extVars, concVars>>

\* Loader.load splits the loaded documents.
SplitLoaded ==
    /\ npc = "loaded"
    /\ chunks' = SplitContents(loaded, ChunkSize)
    /\ npc' = "split"
    /\ UNCHANGED <<pages, loaded, histVars, loadVars, extVars, concVars>>

----------------------------------------------------------------------------
(* Chat requests running side by side on the history store: every file    *)
(* operation of get_chat_history and of the chain's appends is one step.   *)

\* The request slots of the serving layer.
Slots == {"r1", "r2"}

\* The session ids the concurrent requests carry.
ConcIds == { <<"Z","9">>, <<"a","b","c","-","1","2","3","_","1">> }

IdleSlot == [pc |-> "idle", sid |-> <<>>, todo |-> <<>>, buf |-> <<>>, n |-> 0]

ConcInit ==
    /\ max_history_length \in 0..MaxHistoryLength
    /\ fs = <<>>
    /\ appended = [s \in SessionIds |-> <<>>]
    /\ pc = "idle"
    /\ cur = <<>>
    /\ returned = <<>>
    /\ fsBefore = <<>>
    /\ proc = [r \in Slots |-> IdleSlot]
    /\ overlapped = {}

ConcIdle ==
    /\ proc = <<>>
    /\ overlapped = {}

\* The requests started so far.
Started == LET a == proc["r1"].n  b == proc["r2"].n IN a + b

\* The list add_message writes back: only the new message.
AddedListOnlyNew(read, m) == <<m>>

\* The list add_message writes back: what it read, and the new message.
AddedList(read, m) == Append(read, m)

\* write_text: the record is replaced.
FileWrite(store, path, messages) == [store EXCEPT ![path] = messages]

\* The turns of a slot's request.
SlotTurns(r) == << <<"human", r, proc[r].n>>, <<"ai", r, proc[r].n>> >>

\* A request arrives: get_chat_history validates the id and constructs the
\* history object, which creates the record when absent.
Begin(r, session_id) ==
    /\ proc[r].pc = "idle"
    /\ Started < MaxConcRequests
    /\ is_valid_identifier(session_id)
    /\ fs' = FileOpen(fs, file_path(session_id))
    /\ proc' = [proc EXCEPT ![r] = [pc |-> "opened", sid |-> session_id,
                                    todo |-> <<>>, buf |-> <<>>, n |-> @.n + 1]]
    /\ overlapped' = IF \E q \in Slots \ {r} : proc[q].pc # "idle" /\ proc[q].sid = session_id
                     THEN overlapped \cup {session_id} ELSE overlapped
    /\ UNCHANGED <<max_history_length, appended, pc, cur, returned, fsBefore>>
    /\ UNCHANGED <<loadVars, extVars, normVars>>

\* messages = chat_hist.messages, and the test of its length: on to the
\* truncation, or back to the chain, which will add its two turns.
ReadMessages(r) ==
    /\ proc[r].pc = "opened"
    /\ LET messages == FileMessages(fs, file_path(proc[r].sid))
       IN  proc' = [proc EXCEPT ![r] =
                IF Len(messages) > max_history_length
                THEN [@ EXCEPT !.pc = "clear", !.buf = messages]
                ELSE [@ EXCEPT !.pc = "append_read", !.todo = SlotTurns(r)]]
    /\ UNCHANGED <<histVars, overlapped>>
    /\ UNCHANGED <<loadVars, extVars, normVars>>

\* chat_hist.clear()
Clear(r) ==
    /\ proc[r].pc = "clear"
    /\ fs' = FileClear(fs, file_path(proc[r].sid))
    /\ LET keep == KeepLast(proc[r].buf, max_history_length)
       IN  proc' = [proc EXCEPT ![r] =
                IF keep = <<>>
                THEN [@ EXCEPT !.pc = "append_read", !.todo = SlotTurns(r), !.buf = <<>>]
                ELSE [@ EXCEPT !.pc = "readd_read", !.todo = keep, !.buf = <<>>]]
    /\ UNCHANGED <<max_history_length, appended, pc, cur, returned, fsBefore, overlapped>>
    /\ UNCHANGED <<loadVars, extVars, normVars>>

\* add_message, first half: the record is read.
AddRead(r) ==
    /\ proc[r].pc \in {"readd_read", "append_read"}
    /\ proc' = [proc EXCEPT ![r] =
            [@ EXCEPT !.pc = IF @ = "readd_read" THEN "readd_write" ELSE "append_write",
                      !.buf = FileMessages(fs, file_path(proc[r].sid))]]
    /\ UNCHANGED <<histVars, overlapped>>
    /\ UNCHANGED <<loadVars, extVars, normVars>>

\* add_message, second half: the list read, with the message, is written.
\* After the last kept message the chain adds its turns; after the last turn
\* the request is over.
AddWrite(r) ==
    /\ proc[r].pc \in {"readd_write", "append_write"}
    /\ LET s    == proc[r].sid
           m    == Head(proc[r].todo)
           rest == Tail(proc[r].todo)
           app  == proc[r].pc = "append_write"
       IN  /\ fs' = FileWrite(fs, file_path(s), AddedList(proc[r].buf, m))
           /\ appended' = IF app THEN [appended EXCEPT ![s] = Append(@, m)] ELSE appended
           /\ proc' = [proc EXCEPT ![r] =
                  IF rest # <<>>
                  THEN [@ EXCEPT !.pc = IF app THEN "append_read" ELSE "readd_read",
                                 !.todo = rest, !.buf = <<>>]
                  ELSE IF app
                  THEN [IdleSlot EXCEPT !.n = proc[r].n]
                  ELSE [@ EXCEPT !.pc = "append_read", !.todo = SlotTurns(r), !.buf = <<>>]]
    /\ UNCHANGED <<max_history_length, pc, cur, returned, fsBefore, overlapped>>
    /\ UNCHANGED <<loadVars, extVars, normVars>>

ConcNext ==
    \/ \E r \in Slots : \E session_id \in ConcIds : Begin(r, session_id)
    \/ \E r \in Slots : ReadMessages(r)
    \/ \E r \in Slots : Clear(r)
    \/ \E r \in Slots : AddRead(r)
    \/ \E r \in Slots : AddWrite(r)

----------------------------------------------------------------------------
(* Specifications: one per component, the others standing still *)

HistIdle ==
    /\ max_history_length = 0
    /\ fs = <<>>
    /\ appended = <<>>
    /\ pc = "idle"
    /\ cur = <<>>
    /\ returned = <<>>
    /\ fsBefore = <<>>

LoadIdle ==
    /\ dir = {}
    /\ file_type = "pdf"
    /\ workers = 1
    /\ num_cpu = 1
    /\ lpc = "idle"
    /\ files = <<>>
    /\ taskq = <<>>
    /\ parsing = {}
    /\ outq = <<>>
    /\ parsed = {}
    /\ doc_loaded = <<>>
    /\ pool = "none"
    /\ error = NoResult
    /\ result = NoResult

ExtIdle ==
    /\ raw = <<>>
    /\ epc = "idle"
    /\ answer = <<>>

Init == HistInit /\ LoadIdle /\ ExtIdle /\ NormIdle /\ ConcIdle

Next == HistNext

Spec == Init /\ [][Next]_vars

InitLoader == LoadInit /\ HistIdle /\ ExtIdle /\ NormIdle /\ ConcIdle

NextLoader == LoadNext

SpecLoader == InitLoader /\ [][NextLoader]_vars

InitExtractA == ExtInitA /\ HistIdle /\ LoadIdle /\ NormIdle /\ ConcIdle

NextExtractA == ParseA

SpecExtractA == InitExtractA /\ [][NextExtractA]_vars

InitExtractB == ExtInitB /\ HistIdle /\ LoadIdle /\ NormIdle /\ ConcIdle

NextExtractB == ParseB

SpecExtractB == InitExtractB /\ [][NextExtractB]_vars

InitNormalise == NormInit /\ HistIdle /\ LoadIdle /\ ExtIdle /\ ConcIdle

NextNormalise ==
    \/ LoadFile
    \/ SplitLoaded

SpecNormalise == InitNormalise /\ [][NextNormalise]_vars

InitConcurrent == ConcInit /\ LoadIdle /\ ExtIdle /\ NormIdle

NextConcurrent == ConcNext

SpecConcurrent == InitConcurrent /\ [][NextConcurrent]_vars

----------------------------------------------------------------------------
(* Claims about the session history store, checked under Spec *)

\* A non-empty string made only of characters from [A-Za-z0-9_-].
WellFormedId(s) == s # <<>> /\ \A i \in 1..Len(s) : s[i] \in IdClass

\* The record stored for a session when get_chat_history was entered.
RecordBefore(session_id) ==
    IF file_path(session_id) \in DOMAIN fsBefore
    THEN fsBefore[file_path(session_id)] ELSE <<>>

Min(a, b) == IF a < b THEN a ELSE b

\* s is a contiguous suffix of t.
IsSuffix(s, t) ==
    /\ Len(s) <= Len(t)
    /\ s = SubSeq(t, Len(t) - Len(s) + 1, Len(t))

\* C1: get_chat_history rejects every session id that is not a non-empty
\* string over [A-Za-z0-9_-] (among them an id with a trailing newline) and
\* accepts the others; a rejected call leaves the storage as it was.
C1_RejectsMalformedIds ==
    /\ pc = "rejected" => fs = fsBefore
    /\ pc # "idle" => (pc = "rejected" <=> ~ WellFormedId(cur))

\* C2: right after get_chat_history returns, the stored record and the
\* returned history hold exactly the last min(n, max_history_length) of the
\* n turns stored before, in order.
C2_LoadKeepsLastMin ==
    pc = "loaded" =>
        LET before == RecordBefore(cur)
            n      == Len(before)
            k      == Min(n, max_history_length)
        IN  /\ fs[file_path(cur)] = SubSeq(before, n - k + 1, n)
            /\ returned = SubSeq(before, n - k + 1, n)

\* C3: in every reachable state the number of turns stored for a session is
\* at most max_history_length.
C3_StoredAtMostMax ==
    \A p \in DOMAIN fs : Len(fs[p]) <= max_history_length

\* The directory part of a POSIX path: what precedes its last separator.
DirName(path) ==
    LET seps == {i \in 1..Len(path) : path[i] = "/"}
    IN  IF seps = {} THEN <<>>
        ELSE SubSeq(path, 1, (CHOOSE i \in seps : \A j \in seps : j <= i) - 1)

\* C4: for every accepted session id the record path is
\* base_dir/session_id.json, directly inside base_dir, and the id holds no
\* character outside [A-Za-z0-9_-].
C4_AcceptedIdStaysInBaseDir ==
    pc = "loaded" =>
        /\ file_path(cur) = base_dir \o <<"/">> \o cur \o JsonSuffix
        /\ DirName(file_path(cur)) = base_dir
        /\ \A i \in 1..Len(cur) : cur[i] \in IdClass

\* C5: with one writer per session, every stored record is a contiguous
\* suffix, in arrival order, of all the turns ever appended to its session,
\* and a session nothing was appended to stores nothing.
C5_RecordIsSuffixOfAppended ==
    \A s \in SessionIds :
        IF file_path(s) \in DOMAIN fs
        THEN IsSuffix(fs[file_path(s)], appended[s])
        ELSE appended[s] = <<>>

\* Some session has had its oldest turns evicted and still stores turns.
C5_Witness ==
    \E s \in SessionIds :
        /\ file_path(s) \in DOMAIN fs
        /\ fs[file_path(s)] # <<>>
        /\ Len(fs[file_path(s)]) < Len(appended[s])
        /\ pc = "loaded" /\ cur = s

----------------------------------------------------------------------------
(* Claims about the document loader, checked under SpecLoader *)

EndsWith(name, ext) ==
    /\ Len(name) >= Len(ext)
    /\ \A i \in 1..Len(ext) : name[Len(name) - Len(ext) + i] = ext[i]

\* C6: load_dir fails, before any pool exists and before any file is parsed,
\* and returns nothing, whenever the directory holds no file of the declared
\* type (also when it holds only files of the other type).
C6_NoMatchingFileFails ==
    (lpc # "start" /\ \A n \in dir : ~ EndsWith(n, Ext(file_type))) =>
        /\ lpc = "assert_failed"
        /\ pool = "none"
        /\ parsing = {} /\ parsed = {}
        /\ result = NoResult

\* load_dir has failed on a directory that holds files, all of the other type.
C6_Witness ==
    /\ lpc = "assert_failed"
    /\ file_type = "pdf"
    /\ dir = {<<"c">> \o HtmlExt, <<"e">> \o HtmlExt}

\* The places of a file's documents in the loaded list.
Positions(f) == {i \in 1..Len(doc_loaded) : doc_loaded[i].source = f}

\* C7: whatever the order in which the workers finish, the list the loader
\* returns holds each input file's documents exactly once, as one contiguous
\* block in their within-file order, and nothing else.
C7_BlocksPerFile ==
    lpc = "returned" =>
        /\ {r.file : r \in parsed} = {files[i] : i \in 1..Len(files)}
        /\ \A i \in 1..Len(doc_loaded) : \E r \in parsed : r.file = doc_loaded[i].source
        /\ \A r \in parsed :
            LET P == Positions(r.file)
            IN  /\ Cardinality(P) = Len(r.docs)
                /\ \A lo \in P : (\A j \in P : lo <= j) =>
                       \A k \in 1..Len(r.docs) : doc_loaded[lo + k - 1] = r.docs[k]

\* The loader has returned two files of two documents each, the second
\* file's block first.
C7_Witness ==
    /\ lpc = "returned"
    /\ Len(files) = 2
    /\ Len(doc_loaded) = 4
    /\ doc_loaded[1].source = files[2]
    /\ doc_loaded[3].source = files[1]

\* C8: a file's parse failure is never swallowed: load returns a list only
\* when every file parsed, and once a failure is raised it names a failed
\* file and no list is returned.
C8_FailureNotSwallowed ==
    /\ lpc = "returned" => \A r \in parsed : r.ok
    /\ lpc = "raised" =>
        /\ result = NoResult
        /\ \E r \in parsed : ~ r.ok /\ r.file = error

\* A failure was raised after documents of another file had been collected.
C8_Witness ==
    /\ lpc = "raised"
    /\ doc_loaded # <<>>
    /\ result = NoResult

----------------------------------------------------------------------------
(* Claims about the answer extractors *)

\* The literal lit occurs in text at position i.
Occurs(text, lit, i) ==
    \A k \in 1..Len(lit) : i + k - 1 <= Len(text) /\ text[i + k - 1] = lit[k]

Contains(text, lit) == \E i \in 1..Len(text) : Occurs(text, lit, i)

\* t is rest without its leading and trailing whitespace.
IsTrimOf(t, rest) ==
    \E a, b \in 0..Len(rest) :
        /\ a + b <= Len(rest)
        /\ t = SubSeq(rest, a + 1, Len(rest) - b)
        /\ \A k \in 1..a : rest[k] \in Whitespace
        /\ \A k \in (Len(rest) - b + 1)..Len(rest) : rest[k] \in Whitespace
        /\ t # <<>> => (t[1] \notin Whitespace /\ t[Len(t)] \notin Whitespace)

\* C9 (under SpecExtractA): when the raw text contains "Answer:", Variant A
\* returns what follows the first occurrence, to the end of the text, trimmed;
\* otherwise it returns the raw text unchanged.
C9_VariantAAfterFirstMarker ==
    epc = "parsed" =>
        IF Contains(raw, AnswerMarker)
        THEN \E i \in 1..Len(raw) :
                /\ Occurs(raw, AnswerMarker, i)
                /\ \A j \in 1..(i - 1) : ~ Occurs(raw, AnswerMarker, j)
                /\ IsTrimOf(answer, SubSeq(raw, i + Len(AnswerMarker), Len(raw)))
        ELSE answer = raw

\* A text with two markers, the first not at its start and a line break after
\* it, has been parsed.
C9_Witness ==
    /\ epc = "parsed"
    /\ raw = <<"x">> \o AnswerMarker \o <<"\n">> \o AnswerMarker
    /\ answer = AnswerMarker

----------------------------------------------------------------------------
(* Claims about the text normalisation, checked under SpecNormalise *)

\* The number of 7-bit characters among the first i of text.
KeptUpTo(text, i) == Cardinality({j \in 1..i : text[j] < 128})

\* content is text with the characters of code point 128 and above deleted
\* and the others kept in their order.
IsAsciiPartOf(content, text) ==
    /\ Len(content) = KeptUpTo(text, Len(text))
    /\ \A i \in 1..Len(text) : text[i] < 128 => content[KeptUpTo(text, i)] = text[i]

AllAscii(content) == \A k \in 1..Len(content) : content[k] < 128

\* C11: every document load_pdf / load_html returns, and every chunk made of
\* it, holds only characters of code point below 128; the content is the
\* parsed text with the other characters deleted and the rest in order, and
\* normalising it again changes nothing.
C11_ContentIsAsciiPart ==
    /\ npc \in {"loaded", "split"} =>
        /\ Len(loaded) = Len(pages)
        /\ \A i \in 1..Len(loaded) :
            /\ AllAscii(loaded[i])
            /\ IsAsciiPartOf(loaded[i], pages[i])
            /\ remove_non_utf8_characters(loaded[i]) = loaded[i]
    /\ npc = "split" => \A i \in 1..Len(chunks) : AllAscii(chunks[i])

\* A text with a character beyond 7 bits between two 7-bit ones has been
\* loaded and split.
C11_Witness ==
    /\ npc = "split"
    /\ pages = <<(<<97, 233, 127>>)>>
    /\ loaded = <<(<<97, 127>>)>>
    /\ Len(chunks) = 1

----------------------------------------------------------------------------
(* Claims about concurrent chat requests, checked under SpecConcurrent *)

AllIdle == \A r \in Slots : proc[r].pc = "idle"

\* The record stored for a session, empty when there is none.
Record(s) == IF file_path(s) \in DOMAIN fs THEN fs[file_path(s)] ELSE <<>>

Stored(s) == {Record(s)[i] : i \in 1..Len(Record(s))}

\* The turns no truncation may evict: the last max_history_length appended.
Recent(s) ==
    LET n == Len(appended[s])
    IN  {appended[s][i] : i \in {j \in 1..n : j > n - max_history_length}}

\* A turn appended to the session, and recent enough to be kept, is absent
\* from its record, or the record is out of order.
LostUpdate(s) ==
    \/ ~ IsSuffix(Record(s), appended[s])
    \/ ~ (Recent(s) \subseteq Stored(s))

\* C12: the store has no per-session mutual exclusion, and with two requests
\* running together on one session id a lost update is reachable
\* (C12_Witness); when all requests are over, a session has lost an update
\* only if two requests ran on it together.
C12_LostUpdateOnlyByOverlap ==
    AllIdle => \A s \in ConcIds : LostUpdate(s) => s \in overlapped

\* Two requests, the only ones so far, have run together on one session and
\* are over; no record ever held more than max_history_length turns, so no
\* truncation has run; and a turn one of them appended is absent from the
\* record.
C12_Witness ==
    /\ AllIdle
    /\ \A r \in Slots : proc[r].n = 1
    /\ \E s \in ConcIds :
        /\ s \in overlapped
        /\ Len(appended[s]) = 4
        /\ max_history_length = 2
        /\ \E i \in 3..4 : appended[s][i] \notin Stored(s)

----------------------------------------------------------------------------
(* More claims about the chat extractor, checked under SpecExtractB *)

\* What the first pattern gives on the raw text.
FirstPass == recursive_extract(raw, AssistantMarker, default)

\* C13: when "\nAssistant:" matches and its text T is accepted (it is not
\* the fallback string), and "\nAI:" does not occur in T, the result is T:
\* neither the fallback string nor the raw text.
C13_SecondMissKeepsFirst ==
    (/\ epc = "parsed"
     /\ Contains(raw, AssistantMarker)
     /\ FirstPass # default
     /\ ~ Contains(FirstPass, AIMarker))
        => /\ answer = FirstPass
           /\ answer # default
           /\ answer # raw

\* A text whose first pattern accepts "42AI:", where no "\nAI:" occurs, has
\* been parsed to it.
C13_Witness ==
    /\ epc = "parsed"
    /\ raw = AssistantMarker \o <<" ">> \o <<"4", "2">> \o Tail(AIMarker)
    /\ answer = <<"4", "2">> \o Tail(AIMarker)

\* C14: a role marker at the very start of the text, with no line break
\* before it, is stripped: "Assistant: 42" and "AI: 42" give "42", and so
\* does "Assistant: 42 AI: 42".
C14_LeadingMarkerStripped ==
    epc = "parsed" =>
        /\ raw = Tail(AssistantMarker) \o <<" ", "4", "2">> => answer = <<"4", "2">>
        /\ raw = Tail(AIMarker) \o <<" ", "4", "2">> => answer = <<"4", "2">>
        /\ raw = Tail(AssistantMarker) \o <<"4", "2">> \o Tail(AIMarker) \o <<"4", "2">>
               => answer = <<"4", "2">>

\* C16: the result of the chat extractor holds neither "\nAssistant:" nor
\* "\nAI:".
C16_NoMarkerInAnswer ==
    epc = "parsed" =>
        /\ ~ Contains(answer, AssistantMarker)
        /\ ~ Contains(answer, AIMarker)

----------------------------------------------------------------------------
(* The worker pool, checked under SpecLoader *)

\* C15: the pool lives within one call of the loader. At most
\* min(cpu_count, workers) files are being parsed at a time; a pool is alive
\* exactly while the call collects results; when the call has returned or
\* raised, the pool is terminated and no file is being parsed; and a call
\* that starts, or fails its assertion, finds no pool alive.
C15_PoolScopedToCall ==
    /\ Cardinality(parsing) <= Min(num_cpu, workers)
    /\ pool = "alive" <=> lpc = "collecting"
    /\ lpc \in {"returned", "raised"} => pool = "terminated" /\ parsing = {}
    /\ lpc \in {"start", "assert_failed"} => pool # "alive" /\ parsing = {}

\* A call with two files and a pool of one process has raised on the first
\* result it collected, the other file not parsed yet: the pool is terminated.
C15_Witness ==
    /\ lpc = "raised"
    /\ pool = "terminated"
    /\ workers = 2 /\ num_cpu = 1
    /\ Len(files) = 2
    /\ Cardinality(parsed) = 1

----------------------------------------------------------------------------
(* Isolation of sessions, checked under Spec *)

\* The records other than the one of the session the last call was for.
OtherPaths == (DOMAIN fs \cup DOMAIN fsBefore) \ {file_path(cur)}

\* C17: distinct accepted session ids have distinct records; a call of
\* get_chat_history for a session, its truncation included, and the turns
\* appended after it leave every other record as it was before the call;
\* and a rejected call leaves every record as it was.
C17_SessionsIsolated ==
    /\ \A s, t \in SessionIds :
        (is_valid_identifier(s) /\ is_valid_identifier(t) /\ s # t)
            => file_path(s) # file_path(t)
    /\ \A p \in OtherPaths :
        /\ p \in DOMAIN fs /\ p \in DOMAIN fsBefore
        /\ fs[p] = fsBefore[p]
    /\ ~ is_valid_identifier(cur) => fs = fsBefore

\* A call has truncated the record of its session while another session
\* holds turns.
C17_Witness ==
    /\ pc = "loaded"
    /\ is_valid_identifier(cur)
    /\ file_path(cur) \in DOMAIN fsBefore
    /\ Len(fs[file_path(cur)]) < Len(fsBefore[file_path(cur)])
    /\ \E p \in OtherPaths : fs[p] # <<>>

====
